---- MODULE Spec2Model ----
(***************************************************************************)
(* Session authority of the contacts backend (HW_12/src/services/auth.py)  *)
(* and the contact routes that depend on it (HW_12/src/routes/contacts.py).*)
(*                                                                         *)
(* Time is counted in whole seconds, the resolution of the iat and exp     *)
(* claims of a JWT.  A Python dict is a function whose DOMAIN is the set   *)
(* of keys present; an Optional value is a sequence of length 0 (None) or  *)
(* 1.  A token is the claims it carries together with the signature that   *)
(* was computed over them.                                                 *)
(***************************************************************************)
EXTENDS Integers, FiniteSets, Sequences, TLC

VARIABLES clock, ticks, issued, db, last

vars == <<clock, ticks, issued, db, last>>

----------------------------------------------------------------------------
(* Bounds of the model *)

MaxTicks == 3
MaxTokens == 2
MaxDelta == 1

----------------------------------------------------------------------------
(* Configuration and input domains *)

SECRET_KEY == "hashing.KEY"
OtherKey == "not the key"

\* timedelta(minutes=15) and timedelta(days=15), in seconds
DefaultAccessDelta == 15 * 60
DefaultRefreshDelta == 15 * 86400

\* the claims mappings handed to the issuing functions: with and without a
\* subject, and one that already carries scope, iat and exp entries
DataChoices ==
    { [sub |-> "a@x"],
      [sub |-> "b@x"],
      [username |-> "nobody"],
      [sub |-> "a@x", scope |-> "refresh_token", iat |-> 0, exp |-> 0],
      [sub |-> "a@x", scope |-> "access_token", iat |-> 0, exp |-> 0] }

\* Optional[timedelta]: None, or a number of seconds
DeltaChoices == {<<>>} \cup { <<d>> : d \in (0 - MaxDelta)..MaxDelta }

\* the clock moves by a second, by the access window or by the refresh window
TickChoices == {1, DefaultAccessDelta, DefaultRefreshDelta}

----------------------------------------------------------------------------
(* dict helpers *)

Has(d, k) == k \in DOMAIN d

\* variant: entries already present in d are kept (setdefault semantics)
dict_update_setdefault(d, u) ==
    [k \in (DOMAIN d) \cup (DOMAIN u) |-> IF k \in DOMAIN d THEN d[k] ELSE u[k]]

\* dict.update: the entries of u replace those of d
dict_update(d, u) ==
    [k \in (DOMAIN d) \cup (DOMAIN u) |-> IF k \in DOMAIN u THEN u[k] ELSE d[k]]

\* variant: the test "expires_delta is not None"
Truthy_not_none(expires_delta) == Len(expires_delta) = 1

\* truthiness of an Optional[timedelta]: None and timedelta(0) are falsy
Truthy(expires_delta) == Len(expires_delta) = 1 /\ expires_delta[1] # 0

----------------------------------------------------------------------------
(* Token codec (jose.jwt as used by Auth) *)

Sign(claims, key) == [over |-> claims, key |-> key]

jwt_encode(claims, key) ==
    [form |-> "jwt", claims |-> claims, sig |-> Sign(claims, key)]

Malformed == [form |-> "garbage"]

\* the signature segment altered
Tamper(t) == [t EXCEPT !.sig = Sign(t.claims, OtherKey)]

\* the payload segment altered (scope switched), signature segment kept
ReScope(t) ==
    [t EXCEPT !.claims = dict_update(t.claims,
        [scope |-> IF t.claims.scope = "access_token"
                   THEN "refresh_token" ELSE "access_token"])]

JWTError == [ok |-> FALSE]

\* variant: decoding with verify_exp switched off
jwt_decode_noexp(token, key, now) ==
    IF token.form # "jwt" THEN JWTError
    ELSE IF token.sig # Sign(token.claims, key) THEN JWTError
    ELSE [ok |-> TRUE, payload |-> token.claims]

\* jwt.decode: structure, then signature, then the exp claim against now
jwt_decode(token, key, now) ==
    IF token.form # "jwt" THEN JWTError
    ELSE IF token.sig # Sign(token.claims, key) THEN JWTError
    ELSE IF Has(token.claims, "exp") /\ token.claims.exp < now THEN JWTError
    ELSE [ok |-> TRUE, payload |-> token.claims]

----------------------------------------------------------------------------
(* Session authority *)

HTTPException(status, detail, headers) ==
    [kind |-> "HTTPException", status |-> status, detail |-> detail,
     headers |-> headers]

Return(v) == [kind |-> "return", value |-> v]

create_access_token(data, expires_delta, now1, now2) ==
    LET expire == now1 + (IF Truthy(expires_delta) THEN expires_delta[1]
                          ELSE DefaultAccessDelta)
        to_encode == dict_update(data,
            [iat |-> now2, exp |-> expire, scope |-> "access_token"])
    IN jwt_encode(to_encode, SECRET_KEY)

create_refresh_token(data, expires_delta, now1, now2) ==
    LET expire == now1 + (IF Truthy(expires_delta) THEN expires_delta[1]
                          ELSE DefaultRefreshDelta)
        to_encode == dict_update(data,
            [iat |-> now2, exp |-> expire, scope |-> "refresh_token"])
    IN jwt_encode(to_encode, SECRET_KEY)

\* variant: the scope test left out
decode_refresh_token_anyscope(refresh_token, now) ==
    LET dec == jwt_decode(refresh_token, SECRET_KEY, now) IN
    IF ~dec.ok
    THEN HTTPException(401, "Could not validate credentials", {})
    ELSE IF ~Has(dec.payload, "sub")
    THEN HTTPException(401, "Invalid token payload", {})
    ELSE Return(dec.payload.sub)

\* variant: a missing subject reported like a failed decoding
decode_refresh_token_nosub(refresh_token, now) ==
    LET dec == jwt_decode(refresh_token, SECRET_KEY, now) IN
    IF ~dec.ok
    THEN HTTPException(401, "Could not validate credentials", {})
    ELSE IF Has(dec.payload, "scope") /\ dec.payload.scope = "refresh_token"
    THEN IF ~Has(dec.payload, "sub")
         THEN HTTPException(401, "Could not validate credentials", {})
         ELSE Return(dec.payload.sub)
    ELSE HTTPException(401, "Invalid scope for token", {})

\* variant: the token must be the one mirrored on the user record
decode_refresh_token_revoking(refresh_token, now) ==
    LET dec == jwt_decode(refresh_token, SECRET_KEY, now) IN
    IF ~dec.ok
    THEN HTTPException(401, "Could not validate credentials", {})
    ELSE IF Has(dec.payload, "scope") /\ dec.payload.scope = "refresh_token"
    THEN IF ~Has(dec.payload, "sub")
         THEN HTTPException(401, "Invalid token payload", {})
         ELSE IF \E u \in db : u.email = dec.payload.sub
                                /\ u.refresh_token = <<refresh_token>>
         THEN Return(dec.payload.sub)
         ELSE HTTPException(401, "Could not validate credentials", {})
    ELSE HTTPException(401, "Invalid scope for token", {})

decode_refresh_token(refresh_token, now) ==
    LET dec == jwt_decode(refresh_token, SECRET_KEY, now) IN
    IF ~dec.ok
    THEN HTTPException(401, "Could not validate credentials", {})
    ELSE IF Has(dec.payload, "scope") /\ dec.payload.scope = "refresh_token"
    THEN IF ~Has(dec.payload, "sub")
         THEN HTTPException(401, "Invalid token payload", {})
         ELSE Return(dec.payload.sub)
    ELSE HTTPException(401, "Invalid scope for token", {})

\* repositories_users.get_user_by_email: the user with that email, or None
get_user_by_email(email, database) ==
    IF \E u \in database : u.email = email
    THEN <<CHOOSE u \in database : u.email = email>>
    ELSE <<>>

credentials_exception ==
    HTTPException(401, "Could not validate credentials",
                  {<<"WWW-Authenticate", "Bearer">>})

\* variant: the scope test left out
get_current_user_anyscope(token, now, database) ==
    LET dec == jwt_decode(token, SECRET_KEY, now) IN
    IF ~dec.ok THEN credentials_exception
    ELSE IF ~Has(dec.payload, "sub") THEN credentials_exception
    ELSE LET user == get_user_by_email(dec.payload.sub, database) IN
         IF user = <<>> THEN credentials_exception
         ELSE Return(user[1])

get_current_user(token, now, database) ==
    LET dec == jwt_decode(token, SECRET_KEY, now) IN
    IF ~dec.ok THEN credentials_exception
    ELSE IF ~(Has(dec.payload, "scope") /\ dec.payload.scope = "access_token")
    THEN credentials_exception
    ELSE IF ~Has(dec.payload, "sub") THEN credentials_exception
    ELSE LET user == get_user_by_email(dec.payload.sub, database) IN
         IF user = <<>> THEN credentials_exception
         ELSE Return(user[1])

----------------------------------------------------------------------------
(* State *)

Tokens == { r.token : r \in issued }

\* what a client can present: an issued token, an altered one, or garbage
Presentable ==
    Tokens \cup { Tamper(t) : t \in Tokens } \cup { ReScope(t) : t \in Tokens }
           \cup { Malformed }

Idle == [op |-> "none"]

Init ==
    /\ clock = 0
    /\ ticks = 0
    /\ issued = {}
    /\ db = { [email |-> "a@x", refresh_token |-> <<>>] }
    /\ last = Idle

Tick ==
    /\ ticks < MaxTicks
    /\ \E d \in TickChoices : clock' = clock + d
    /\ ticks' = ticks + 1
    /\ last' = Idle
    /\ UNCHANGED <<issued, db>>

\* One call of create_access_token with inputs drawn from datas and deltas.
\* The function reads the clock twice (for exp, then for iat); adv tells
\* whether the clock crossed a second boundary between the two reads.
Issue_access(datas, deltas, cap) ==
    /\ Cardinality(issued) < cap
    /\ \E data \in datas, expires_delta \in deltas, adv \in 0..1 :
         LET tok == create_access_token(data, expires_delta, clock, clock + adv)
         IN /\ issued' = issued \cup {[token |-> tok, expires_delta |-> expires_delta,
                                      at |-> clock]}
            /\ clock' = clock + adv
            /\ last' = [op |-> "create_access_token", data |-> data,
                        expires_delta |-> expires_delta, now1 |-> clock,
                        now2 |-> clock + adv, out |-> tok]
    /\ UNCHANGED <<ticks, db>>

Issue_refresh(datas, deltas, cap) ==
    /\ Cardinality(issued) < cap
    /\ \E data \in datas, expires_delta \in deltas, adv \in 0..1 :
         LET tok == create_refresh_token(data, expires_delta, clock, clock + adv)
         IN /\ issued' = issued \cup {[token |-> tok, expires_delta |-> expires_delta,
                                      at |-> clock]}
            /\ clock' = clock + adv
            /\ last' = [op |-> "create_refresh_token", data |-> data,
                        expires_delta |-> expires_delta, now1 |-> clock,
                        now2 |-> clock + adv, out |-> tok]
    /\ UNCHANGED <<ticks, db>>

Call_create_access_token == Issue_access(DataChoices, DeltaChoices, 1)

Call_create_refresh_token == Issue_refresh(DataChoices, DeltaChoices, 1)

Call_decode_refresh_token ==
    /\ \E t \in Presentable :
         last' = [op |-> "decode_refresh_token", token |-> t, at |-> clock,
                  out |-> decode_refresh_token(t, clock)]
    /\ UNCHANGED <<clock, ticks, issued, db>>

Call_get_current_user ==
    /\ \E t \in Presentable :
         last' = [op |-> "get_current_user", token |-> t, at |-> clock,
                  out |-> get_current_user(t, clock, db)]
    /\ UNCHANGED <<clock, ticks, issued, db>>

\* the login and refresh endpoints: claims {"sub": email}, default lifetime
LoginData == { [sub |-> "a@x"], [sub |-> "b@x"] }

Login_access_token == Issue_access(LoginData, {<<>>}, 1)

Login_refresh_token == Issue_refresh(LoginData, {<<>>}, 1)

Session_access_token == Issue_access({[sub |-> "a@x"]}, {<<>>}, MaxTokens)

Session_refresh_token == Issue_refresh({[sub |-> "a@x"]}, {<<>>}, MaxTokens)

\* repositories_users.update_token: the refresh token string mirrored onto
\* the user record (NULL, or any refresh token issued so far)
update_token ==
    /\ \E u \in db :
       \E tk \in {<<>>} \cup { <<t>> : t \in { x \in Tokens : x.claims.scope = "refresh_token" } } :
         /\ tk # u.refresh_token
         /\ db' = (db \ {u}) \cup {[u EXCEPT !.refresh_token = tk]}
    /\ last' = Idle
    /\ UNCHANGED <<clock, ticks, issued>>

----------------------------------------------------------------------------
(* Contact routes.  Each handler is one request: the dependency              *)
(* Depends(auth_service.get_current_user) is resolved from the bearer token  *)
(* first; the body runs, with the resolved user, only if that succeeded.     *)
(* found tells whether the repository call returns a contact or None.        *)

RepoCall(fn, user) == [fn |-> fn, user |-> user]

Request(op, token, now, auth, calls, response) ==
    [op |-> op, token |-> token, at |-> now, auth |-> auth, calls |-> calls,
     response |-> response]

NotFound == HTTPException(404, "Contact with id {contact_id} not found", {})

get_contacts(token, now, database) ==
    LET user == get_current_user(token, now, database) IN
    IF user.kind # "return" THEN Request("get_contacts", token, now, user, <<>>, user)
    ELSE Request("get_contacts", token, now, user,
                 <<RepoCall("get_contacts", user.value)>>, Return("contacts"))

get_contact(token, found, now, database) ==
    LET user == get_current_user(token, now, database) IN
    IF user.kind # "return" THEN Request("get_contact", token, now, user, <<>>, user)
    ELSE Request("get_contact", token, now, user,
                 <<RepoCall("get_contact", user.value)>>,
                 IF found THEN Return("contact") ELSE NotFound)

create_contact(token, now, database) ==
    LET user == get_current_user(token, now, database) IN
    IF user.kind # "return" THEN Request("create_contact", token, now, user, <<>>, user)
    ELSE Request("create_contact", token, now, user,
                 <<RepoCall("create_contact", user.value)>>, Return("contact"))

update_contact(token, found, now, database) ==
    LET user == get_current_user(token, now, database) IN
    IF user.kind # "return" THEN Request("update_contact", token, now, user, <<>>, user)
    ELSE Request("update_contact", token, now, user,
                 <<RepoCall("update_contact", user.value)>>,
                 IF found THEN Return("contact") ELSE NotFound)

delete_contact(token, found, now, database) ==
    LET user == get_current_user(token, now, database) IN
    IF user.kind # "return" THEN Request("delete_contact", token, now, user, <<>>, user)
    ELSE Request("delete_contact", token, now, user,
                 <<RepoCall("delete_contact", user.value)>>,
                 IF found THEN Return("contact") ELSE NotFound)

search_contacts(token, now, database) ==
    LET user == get_current_user(token, now, database) IN
    IF user.kind # "return" THEN Request("search_contacts", token, now, user, <<>>, user)
    ELSE Request("search_contacts", token, now, user,
                 <<RepoCall("search_contacts", user.value)>>, Return("contacts"))

\* variant: the handler body runs whatever the dependency returned
get_birthdays_open(token, now, database) ==
    LET user == get_current_user(token, now, database) IN
    Request("get_birthdays", token, now, user,
            <<RepoCall("get_birthdays",
                       IF user.kind = "return" THEN user.value
                       ELSE [email |-> "anonymous", refresh_token |-> <<>>])>>,
            Return("contacts"))

get_birthdays(token, now, database) ==
    LET user == get_current_user(token, now, database) IN
    IF user.kind # "return" THEN Request("get_birthdays", token, now, user, <<>>, user)
    ELSE Request("get_birthdays", token, now, user,
                 <<RepoCall("get_birthdays", user.value)>>, Return("contacts"))

GET_contacts ==
    /\ \E t \in Presentable : last' = get_contacts(t, clock, db)
    /\ UNCHANGED <<clock, ticks, issued, db>>

GET_contact ==
    /\ \E t \in Presentable, found \in BOOLEAN : last' = get_contact(t, found, clock, db)
    /\ UNCHANGED <<clock, ticks, issued, db>>

POST_contact ==
    /\ \E t \in Presentable : last' = create_contact(t, clock, db)
    /\ UNCHANGED <<clock, ticks, issued, db>>

PUT_contact ==
    /\ \E t \in Presentable, found \in BOOLEAN : last' = update_contact(t, found, clock, db)
    /\ UNCHANGED <<clock, ticks, issued, db>>

DELETE_contact ==
    /\ \E t \in Presentable, found \in BOOLEAN : last' = delete_contact(t, found, clock, db)
    /\ UNCHANGED <<clock, ticks, issued, db>>

GET_search ==
    /\ \E t \in Presentable : last' = search_contacts(t, clock, db)
    /\ UNCHANGED <<clock, ticks, issued, db>>

GET_birthdays ==
    /\ \E t \in Presentable : last' = get_birthdays(t, clock, db)
    /\ UNCHANGED <<clock, ticks, issued, db>>

\* the session authority on its own: one token at a time, every input
Next ==
    \/ Tick
    \/ Call_create_access_token
    \/ Call_create_refresh_token
    \/ Call_decode_refresh_token
    \/ Call_get_current_user

Spec == Init /\ [][Next]_vars

\* the contact routes behind the bearer token
NextRoutes ==
    \/ Tick
    \/ Login_access_token
    \/ Login_refresh_token
    \/ GET_contacts
    \/ GET_contact
    \/ POST_contact
    \/ PUT_contact
    \/ DELETE_contact
    \/ GET_search
    \/ GET_birthdays

SpecRoutes == Init /\ [][NextRoutes]_vars

\* several tokens of one user, and the token mirrored on the user record
NextSession ==
    \/ Tick
    \/ Session_access_token
    \/ Session_refresh_token
    \/ update_token
    \/ Call_decode_refresh_token

SpecSession == Init /\ [][NextSession]_vars

----------------------------------------------------------------------------
(* Properties *)

RouteOps ==
    {"get_contacts", "get_contact", "create_contact", "update_contact",
     "delete_contact", "search_contacts", "get_birthdays"}

\* C1: get_current_user returns a user only for an unaltered token issued
\* under the secret key that is not expired, has scope access_token, carries
\* a subject, and whose subject is the email of a stored user (the user
\* returned); in every other case, refresh tokens included, it raises the
\* 401 credentials exception.
C1_CurrentUserOnlyForValidAccessToken ==
    last.op = "get_current_user" =>
        LET t == last.token
            accepted == /\ t \in Tokens
                        /\ last.at <= t.claims.exp
                        /\ t.claims.scope = "access_token"
                        /\ Has(t.claims, "sub")
                        /\ \E u \in db : u.email = t.claims.sub
        IN /\ IF accepted
              THEN /\ last.out.kind = "return"
                   /\ last.out.value \in db
                   /\ last.out.value.email = t.claims.sub
              ELSE /\ last.out = credentials_exception
                   /\ last.out.status = 401
           /\ (t \in Tokens /\ t.claims.scope = "refresh_token")
                  => last.out.kind = "HTTPException"

C1_Witness ==
    /\ last.op = "get_current_user"
    /\ last.token \in Tokens
    /\ last.out.kind = "return"
    /\ last.out.value.email = last.token.claims.sub

\* C2 (as claimed): decode_refresh_token on a token issued by
\* create_access_token raises 401 "Invalid scope for token", whenever the
\* token is presented.
C2_AccessTokenAlwaysInvalidScope ==
    (/\ last.op = "decode_refresh_token"
     /\ last.token \in Tokens
     /\ last.token.claims.scope = "access_token")
        => last.out = HTTPException(401, "Invalid scope for token", {})

\* C2 (amended): decode_refresh_token on a token issued by
\* create_access_token raises 401 "Invalid scope for token" when the token
\* is presented no later than its exp, and 401 "Could not validate
\* credentials" when it is presented after its exp.
C2_AccessTokenInvalidScopeUntilExpiry ==
    (/\ last.op = "decode_refresh_token"
     /\ last.token \in Tokens
     /\ last.token.claims.scope = "access_token")
        => IF last.at <= last.token.claims.exp
           THEN last.out = HTTPException(401, "Invalid scope for token", {})
           ELSE last.out = HTTPException(401, "Could not validate credentials", {})

C2_Witness ==
    /\ last.op = "decode_refresh_token"
    /\ last.token \in Tokens
    /\ last.token.claims.scope = "access_token"
    /\ last.at <= last.token.claims.exp
    /\ last.out.detail = "Invalid scope for token"

\* C3: for every claims mapping (also one with its own scope, iat and exp
\* entries) and every ttl > 0, decoding the token right after the issuing
\* call returned succeeds and yields the scope of the issuing function and
\* the subject of the claims mapping; the scope of an issued token is that of
\* the issuing function for every ttl.
C3_IssuedTokenDecodes ==
    last.op \in {"create_access_token", "create_refresh_token"} =>
        LET dec == jwt_decode(last.out, SECRET_KEY, last.now2)
            want == IF last.op = "create_access_token"
                    THEN "access_token" ELSE "refresh_token"
        IN /\ last.out.claims.scope = want
           /\ (Len(last.expires_delta) = 1 /\ last.expires_delta[1] > 0)
                 => /\ dec.ok
                    /\ dec.payload.scope = want
                    /\ Has(dec.payload, "sub") <=> Has(last.data, "sub")
                    /\ Has(last.data, "sub") => dec.payload.sub = last.data.sub

C3_Witness ==
    /\ last.op = "create_access_token"
    /\ Has(last.data, "scope")
    /\ last.data.scope = "refresh_token"
    /\ last.expires_delta = <<1>>
    /\ last.now2 > last.now1
    /\ jwt_decode(last.out, SECRET_KEY, clock).ok

\* C4: a token whose exp has elapsed is rejected by decode_refresh_token and
\* by get_current_user, now and at every later time, with the very failure
\* each of them raises for the same token with an altered signature.
C4_ExpiredRejectedLikeTampered ==
    /\ \A t \in Tokens : t.claims.exp < clock =>
         \A d \in {0} \cup TickChoices :
            /\ decode_refresh_token(t, clock + d).kind = "HTTPException"
            /\ decode_refresh_token(t, clock + d)
                  = decode_refresh_token(Tamper(t), clock + d)
            /\ get_current_user(t, clock + d, db).kind = "HTTPException"
            /\ get_current_user(t, clock + d, db)
                  = get_current_user(Tamper(t), clock + d, db)
    /\ (/\ last.op \in {"decode_refresh_token", "get_current_user"}
        /\ last.token \in Tokens
        /\ last.token.claims.exp < last.at)
          => /\ last.out.kind = "HTTPException"
             /\ last.out.status = 401
             /\ last.out.detail = "Could not validate credentials"

C4_Witness ==
    /\ last.op = "decode_refresh_token"
    /\ last.token \in Tokens
    /\ last.token.claims.scope = "refresh_token"
    /\ Has(last.token.claims, "sub")
    /\ last.token.claims.iat < last.token.claims.exp
    /\ last.token.claims.exp < last.at
    /\ last.out.kind = "HTTPException"

\* C5 (as claimed): every failure of decode_refresh_token, and every failure
\* of get_current_user, has the status, detail and headers of the failure
\* the same function raises for an undecodable token.
C5_FailuresIndistinguishable ==
    /\ (last.op = "decode_refresh_token" /\ last.out.kind = "HTTPException")
          => last.out = decode_refresh_token(Malformed, last.at)
    /\ (last.op = "get_current_user" /\ last.out.kind = "HTTPException")
          => last.out = get_current_user(Malformed, last.at, db)

\* C6 (as claimed): decode_refresh_token raises one and the same error,
\* "Invalid token payload", when decoding fails and when the decoded
\* refresh-scoped token has no subject.
C6_DecodeFailureIsMalformed ==
    (/\ last.op = "decode_refresh_token"
     /\ \/ ~(last.token \in Tokens /\ last.at <= last.token.claims.exp)
        \/ (last.token.claims.scope = "refresh_token"
              /\ ~Has(last.token.claims, "sub")))
        => last.out = HTTPException(401, "Invalid token payload", {})

\* C6 (amended): decode_refresh_token raises 401 "Could not validate
\* credentials" when decoding fails, 401 "Invalid token payload" when the
\* decoded refresh-scoped token has no subject, and otherwise (decodes, scope
\* refresh_token, subject present) returns exactly the subject.
C6_RefreshOutcomes ==
    last.op = "decode_refresh_token" =>
        LET t == last.token IN
        IF ~(t \in Tokens /\ last.at <= t.claims.exp)
        THEN last.out = HTTPException(401, "Could not validate credentials", {})
        ELSE (t.claims.scope = "refresh_token") =>
                IF Has(t.claims, "sub")
                THEN last.out = Return(t.claims.sub)
                ELSE last.out = HTTPException(401, "Invalid token payload", {})

C6_Witness ==
    /\ last.op = "decode_refresh_token"
    /\ last.token \in Tokens
    /\ last.at <= last.token.claims.exp
    /\ last.token.claims.scope = "refresh_token"
    /\ ~Has(last.token.claims, "sub")
    /\ last.out.detail = "Invalid token payload"

\* C7: a contact route makes its repository call only in a request whose
\* bearer token get_current_user resolved (an unaltered, unexpired access
\* token of a stored user), makes exactly that one call, and passes it the
\* resolved user; a request whose resolution failed makes no repository call
\* and answers with the 401 of the resolution.
C7_RepositoryOnlyAfterAuth ==
    last.op \in RouteOps =>
        /\ last.auth.kind # "return"
              => /\ last.calls = <<>>
                 /\ last.response = last.auth
                 /\ last.response.status = 401
        /\ last.auth.kind = "return"
              => /\ last.calls = <<RepoCall(last.op, last.auth.value)>>
                 /\ last.token \in Tokens
                 /\ last.token.claims.scope = "access_token"
                 /\ last.at <= last.token.claims.exp
                 /\ last.auth.value \in db
                 /\ last.auth.value.email = last.token.claims.sub

C7_Witness ==
    /\ last.op = "get_birthdays"
    /\ last.auth.kind = "return"
    /\ Len(last.calls) = 1
    /\ last.calls[1].user.email = last.token.claims.sub

\* C8: decode_refresh_token returns the subject of every issued refresh
\* token (that has one) at every time up to its exp, whatever tokens were
\* issued later and whatever refresh token string the user record holds.
C8_RefreshValidityIgnoresRecord ==
    /\ \A t \in Tokens :
          (/\ t.claims.scope = "refresh_token"
           /\ Has(t.claims, "sub")
           /\ clock <= t.claims.exp)
              => decode_refresh_token(t, clock) = Return(t.claims.sub)
    /\ (/\ last.op = "decode_refresh_token"
        /\ last.token \in Tokens
        /\ last.token.claims.scope = "refresh_token"
        /\ Has(last.token.claims, "sub")
        /\ last.at <= last.token.claims.exp)
          => last.out = Return(last.token.claims.sub)

C8_Witness ==
    /\ last.op = "decode_refresh_token"
    /\ last.token \in Tokens
    /\ last.out = Return("a@x")
    /\ \E t2 \in Tokens :
          /\ t2.claims.scope = "refresh_token"
          /\ t2.claims.sub = last.token.claims.sub
          /\ t2.claims.iat > last.token.claims.iat
          /\ \E u \in db : u.email = "a@x" /\ u.refresh_token = <<t2>>

\* C9 (as claimed): in every issued token, exp equals iat plus the ttl in
\* effect: the supplied ttl, or the default of the issuing function when
\* none is supplied.
C9_ExpIsIatPlusTtl ==
    last.op \in {"create_access_token", "create_refresh_token"} =>
        LET ttl == IF Len(last.expires_delta) = 1 THEN last.expires_delta[1]
                   ELSE IF last.op = "create_access_token"
                        THEN DefaultAccessDelta ELSE DefaultRefreshDelta
        IN last.out.claims.exp = last.out.claims.iat + ttl

\* C10: a supplied ttl of zero is replaced by the default of the issuing
\* function (exp is the first clock reading plus 15 minutes, or plus 15
\* days), so that the matching resolver accepts the token up to the end of
\* the default window; a supplied non-zero ttl, positive or negative, is used
\* as given.
C10_ZeroTtlMeansDefault ==
    /\ last.op \in {"create_access_token", "create_refresh_token"} =>
          LET default == IF last.op = "create_access_token"
                         THEN DefaultAccessDelta ELSE DefaultRefreshDelta
          IN /\ last.expires_delta = <<0>>
                   => last.out.claims.exp = last.now1 + default
             /\ (Len(last.expires_delta) = 1 /\ last.expires_delta[1] # 0)
                   => last.out.claims.exp = last.now1 + last.expires_delta[1]
    /\ \A r \in issued :
          (/\ r.expires_delta = <<0>>
           /\ Has(r.token.claims, "sub")
           /\ clock <= r.at + (IF r.token.claims.scope = "access_token"
                               THEN DefaultAccessDelta ELSE DefaultRefreshDelta))
              => IF r.token.claims.scope = "refresh_token"
                 THEN decode_refresh_token(r.token, clock) = Return(r.token.claims.sub)
                 ELSE (\E u \in db : u.email = r.token.claims.sub)
                         => get_current_user(r.token, clock, db).kind = "return"

C10_Witness ==
    /\ last.op = "get_current_user"
    /\ last.out.kind = "return"
    /\ \E r \in issued :
          /\ r.token = last.token
          /\ r.expires_delta = <<0>>
          /\ last.at = r.at + DefaultAccessDelta

====
